---- MODULE Spec2Model ----
(***************************************************************************)
(* State-machine model of scorer_app.py: the scoring workflow (identify,   *)
(* next assignment, submit measurements, progress) over the per-scorer     *)
(* scores.csv logs and the image manifest.                                 *)
(*                                                                         *)
(* Text (scorer identifiers, image codes) is a sequence of code points,    *)
(* so that str.strip(), path joining and sorted() are computed as Python   *)
(* computes them.  The empty sequence stands for both an absent value      *)
(* (None) and the empty string: every test the code applies to such a      *)
(* value is "if not v", which treats the two alike.                        *)
(* The timestamp column of a row is not modelled: no operation reads it.   *)
(***************************************************************************)
EXTENDS Integers, Sequences, FiniteSets, TLC

\* ------------------------------------------------------------------ bounds
\* Most lines (headers included) the scores.csv files hold together.
MaxLines == 4
\* Most measurement pairs one submission carries.
MaxPairs == 2
\* coordinates of the points of the distance specification: 0..MaxCoord and
\* 100..100+MaxCoord
MaxCoord == 4

\* ------------------------------------------------------- program constants
BOX_W_INCHES_X100 == 584
BOX_H_INCHES_X100 == 631
IMG_W_PX == 1110
IMG_H_PX == 1215

\* mutant of AR_SYSTEMS: "AR-VIU" is left out
AR_SYSTEMS_one == {"2D/AR"}

AR_SYSTEMS == {"2D/AR", "AR-VIU"}

\* MM_PER_PX = 25.4 / PX_PER_INCH as the reduced fraction KNum / KDen:
\* 25.4 / (((W/bw) + (H/bh)) / 2) = 508*bw*bh / (1000 * (W*bh + H*bw)),
\* with bw, bh in hundredths of an inch; both sides divided by 16.
KNum == (508 \div 4) * (BOX_W_INCHES_X100 \div 4) * BOX_H_INCHES_X100
KDen == 125 * ((IMG_W_PX * BOX_H_INCHES_X100 + IMG_H_PX * BOX_W_INCHES_X100) \div 2)

RECURSIVE FracDigits(_, _, _, _)
\* floor(num / den * 10^k) for num < den, by long division (acc starts at 0)
FracDigits(num, den, k, acc) ==
    IF k = 0 THEN acc
    ELSE FracDigits((num * 10) % den, den, k - 1, acc * 10 + ((num * 10) \div den))

\* MM_PER_PX in units of 10^-9 (0.132768805...)
MM_PER_PX_E9 == FracDigits(KNum, KDen, 9, 0)

\* ------------------------------------------------------------------ text
A1 == <<65, 49>>               \* "A1"
A10 == <<65, 49, 48>>          \* "A10"
A2 == <<65, 50>>               \* "A2"
\* the text of the first header cell, "image_code"
HeaderCode == <<105, 109, 97, 103, 101, 95, 99, 111, 100, 101>>

Whitespace == {9, 10, 11, 12, 13, 28, 29, 30, 31, 32}

Min(a, b) == IF a < b THEN a ELSE b

\* Python's str < str: compare code points at the first difference, a proper
\* prefix sorts first.
LexLess(a, b) ==
    \E i \in 1..(Min(Len(a), Len(b)) + 1) :
        /\ \A j \in 1..(i - 1) : a[j] = b[j]
        /\ \/ i > Len(a) /\ i <= Len(b)
           \/ i <= Len(a) /\ i <= Len(b) /\ a[i] < b[i]

RECURSIVE sorted(_)
sorted(S) ==
    IF S = {} THEN <<>>
    ELSE LET m == CHOOSE x \in S : \A y \in S \ {x} : LexLess(x, y)
         IN  <<m>> \o sorted(S \ {m})

RECURSIVE LStrip(_)
LStrip(s) == IF s # <<>> /\ Head(s) \in Whitespace THEN LStrip(Tail(s)) ELSE s

RECURSIVE RStrip(_)
RStrip(s) ==
    IF s # <<>> /\ s[Len(s)] \in Whitespace THEN RStrip(SubSeq(s, 1, Len(s) - 1)) ELSE s

\* mutant of Strip: the identifier is taken as typed
Strip_none(s) == s

\* str.strip()
Strip(s) == RStrip(LStrip(s))

RECURSIVE SplitSlash(_, _)
\* the "/"-separated pieces of s; cur is the piece being read
SplitSlash(s, cur) ==
    IF s = <<>> THEN <<cur>>
    ELSE IF Head(s) = 47 THEN <<cur>> \o SplitSlash(Tail(s), <<>>)
    ELSE SplitSlash(Tail(s), Append(cur, Head(s)))

\* SCORER_DATA_DIR / scorer_id, as the components below SCORER_DATA_DIR:
\* pathlib drops empty components (doubled or trailing "/") and "." ones.
\* Identifiers starting with "/" or holding ".." are not among the inputs.
ScorerDir(scorer_id) ==
    SelectSeq(SplitSlash(scorer_id, <<>>), LAMBDA c : c # <<>> /\ c # <<46>>)

\* ------------------------------------------------------------- distances
\* Distances are kept as integers: hundredths for the two formatted columns.
\* The square root is taken digit by digit, so that every intermediate value
\* stays below 2^31.
RECURSIVE IsqrtIn(_, _, _)
\* the r in lo..hi with r*r <= x < (r+1)*(r+1), by bisection
IsqrtIn(x, lo, hi) ==
    IF lo = hi THEN lo
    ELSE LET mid == (lo + hi + 1) \div 2
         IN  IF mid * mid <= x THEN IsqrtIn(x, mid, hi) ELSE IsqrtIn(x, lo, mid - 1)

RECURSIVE SqrtDigits(_, _, _)
\* k more decimal digits of a square root, from its integer part D so far and
\* the remainder r = (radicand so far) - D*D
SqrtDigits(D, r, k) ==
    IF k = 0 THEN D
    ELSE LET t == CHOOSE u \in 0..9 :
                      /\ (20 * D + u) * u <= 100 * r
                      /\ u = 9 \/ (20 * D + u + 1) * (u + 1) > 100 * r
         IN  SqrtDigits(10 * D + t, 100 * r - (20 * D + t) * t, k - 1)

\* floor(sqrt(n) * 10^k)
SqrtScaled(n, k) ==
    LET D == IsqrtIn(n, 0, n)
    IN  SqrtDigits(D, n - D * D, k)

Keys == {"id", "p1_x", "p1_y", "p2_x", "p2_y"}

\* mutant of SqDist: the differences are added before squaring
SqDist_sum(m) ==
    LET dx == m.p1_x - m.p2_x
        dy == m.p1_y - m.p2_y
    IN  (dx + dy) * (dx + dy)

\* dx**2 + dy**2 of one measurement
SqDist(m) ==
    LET dx == m.p1_x - m.p2_x
        dy == m.p1_y - m.p2_y
    IN  dx * dx + dy * dy

\* f"{dist_px:.2f}" in hundredths: sqrt(n) rounded to two decimals
FormatDistPx(m) == (SqrtScaled(SqDist(m), 3) + 5) \div 10

\* f"{dist_mm:.2f}" in hundredths, dist_mm = dist_px * MM_PER_PX: the product
\* of MM_PER_PX to nine decimals and the root to five, rounded to two decimals.
\* It equals Python's output for every dx, dy up to 150 pixels.
FormatDistMm(m) ==
    LET a == MM_PER_PX_E9 \div 100000
        b == MM_PER_PX_E9 % 100000
        c == SqrtScaled(SqDist(m), 5) \div 10000
        e == SqrtScaled(SqDist(m), 5) % 10000
        \* floor(MM_PER_PX_E9 * SqrtScaled(n, 5) / 10^9)
        q == a * c + (a * e * 10 + b * c + ((b * e) \div 10000)) \div 100000
    IN  (q + 500) \div 1000

\* ------------------------------------------------------------------ inputs
Clients == {"c1"}

\* values of the scorer_id form field: "", " ", " a ", "b", "a/"
RawIds == {<<>>, <<32>>, <<32, 97, 32>>, <<98>>, <<97, 47>>}

ScorerIds == {Strip(r) : r \in RawIds} \ {<<>>}

\* image_code values of a submission; <<>> is the absent or empty one
CodeInputs == {<<>>, A10, A2}

\* the i-th pair of a submission: the client numbers its pairs 1, 2, ...;
\* the participant mark is (100, 100) and the target 5*i pixels away
GoodPair(i) ==
    [id |-> i, p1_x |-> 100, p1_y |-> 100, p2_x |-> 100 + 3 * i, p2_y |-> 100 + 4 * i]
\* a pair that lacks p2_y
BadPair(i) == [id |-> i, p1_x |-> 100, p1_y |-> 100, p2_x |-> 100 + 3 * i]

\* the measurements lists: up to MaxPairs good pairs, or fewer good pairs
\* followed by a bad one
MeasurementInputs ==
    { [i \in 1..n |-> GoodPair(i)] : n \in 0..MaxPairs }
        \cup { [i \in 1..n |-> IF i < n THEN GoodPair(i) ELSE BadPair(i)] : n \in 1..MaxPairs }

\* manifest.json: absent, {}, one image, two images (one without "system"),
\* three images
ManifestInputs ==
    { [exists |-> FALSE, data |-> <<>>],
      [exists |-> TRUE, data |-> <<>>],
      [exists |-> TRUE, data |-> (A2 :> [system |-> "3D/Screen"])],
      [exists |-> TRUE, data |-> (A10 :> [system |-> "2D/AR"]) @@ (A2 :> [note |-> "x"])],
      [exists |-> TRUE, data |-> (A1 :> [system |-> "AR-VIU"])
                                     @@ (A10 :> [system |-> "2D/Screen"])
                                     @@ (A2 :> [system |-> "2D/AR"])] }

\* ------------------------------------------------------------------- state
VARIABLES
    manifest,   \* aligned_output/manifest.json
    dirs,       \* the directories below SCORER_DATA_DIR, as component paths
    scores,     \* directory path -> lines of its scores.csv, where one exists
    session,    \* client -> session["scorer_id"], <<>> when unset
    last,       \* the request just served and its response
    proc        \* process -> its position and locals; <<>> when handlers run whole

vars == <<manifest, dirs, scores, session, last, proc>>

CSV_HEADER == [kind |-> "header"]

Row(image_code, m) ==
    [kind |-> "row", image_code |-> image_code, measurement_id |-> m.id,
     point1_x |-> m.p1_x, point1_y |-> m.p1_y,
     point2_x |-> m.p2_x, point2_y |-> m.p2_y,
     distance_px |-> FormatDistPx(m), distance_mm |-> FormatDistMm(m)]

\* row["image_code"] of a line csv.DictReader yields after the first one; a
\* header line met there is read as a row whose image_code is "image_code".
\* The codes of the inputs hold no comma, quote or line break: csv writes
\* them unquoted and reads them back as written.
ImageCodeCell(line) == IF line.kind = "header" THEN HeaderCode ELSE line.image_code

\* a served request: the inputs its handler read and the response it gave
Resp(op, c, sid, status) ==
    [op |-> op, client |-> c, scorer_id |-> sid, status |-> status,
     image_code |-> <<>>, ref_type |-> "", total |-> 0, scored |-> 0,
     remaining |-> 0,
     raw |-> <<>>, req_image_code |-> <<>>, req_measurements |-> <<>>,
     scorers |-> <<>>, archive |-> <<>>]

load_manifest == IF manifest.exists THEN manifest.data ELSE <<>>

\* mutant of get_image_list: the codes in descending order
get_image_list_reversed ==
    LET a == sorted(DOMAIN load_manifest)
    IN  [i \in 1..Len(a) |-> a[Len(a) + 1 - i]]

get_image_list == sorted(DOMAIN load_manifest)

\* mutant of get_scorer_progress: the first data row is skipped with the header
get_scorer_progress_skip(scorer_id) ==
    LET scores_path == ScorerDir(scorer_id)
    IN  IF scores_path \in DOMAIN scores
        THEN {ImageCodeCell(scores[scores_path][i]) : i \in 3..Len(scores[scores_path])}
        ELSE {}

get_scorer_progress(scorer_id) ==
    LET scores_path == ScorerDir(scorer_id)
    IN  IF scores_path \in DOMAIN scores
        THEN {ImageCodeCell(scores[scores_path][i]) : i \in 2..Len(scores[scores_path])}
        ELSE {}

\* get_scorer_progress raises KeyError('image_code'): csv.DictReader takes the
\* first line for the field names, so when that line is a data row no later
\* line has an "image_code" field (no cell of the inputs is "image_code")
get_scorer_progress_raises(scorer_id) ==
    LET scores_path == ScorerDir(scorer_id)
    IN  /\ scores_path \in DOMAIN scores
        /\ Len(scores[scores_path]) >= 2
        /\ scores[scores_path][1].kind = "row"

RECURSIVE GoodPrefix(_)
\* how many leading measurements are written before one raises KeyError
GoodPrefix(ms) ==
    IF ms = <<>> \/ ~(Keys \subseteq DOMAIN Head(ms)) THEN 0
    ELSE 1 + GoodPrefix(Tail(ms))

\* mkdir(exist_ok=True) without parents=True needs the parent to exist
MkdirOk(scorer_dir) ==
    Len(scorer_dir) <= 1 \/ SubSeq(scorer_dir, 1, Len(scorer_dir) - 1) \in dirs

\* mutant of save_measurements: the header is written by every call
save_measurements_header(scorer_id, image_code, measurements) ==
    LET scorer_dir == ScorerDir(scorer_id)
        file_exists == scorer_dir \in DOMAIN scores
        old == IF file_exists THEN scores[scorer_dir] ELSE <<>>
        n == GoodPrefix(measurements)
        rows == [i \in 1..n |-> Row(image_code, measurements[i])]
    IN  IF ~MkdirOk(scorer_dir)
        THEN [dirs |-> dirs, scores |-> scores, raised |-> TRUE]
        ELSE [dirs |-> dirs \cup {scorer_dir},
              scores |-> (scorer_dir :> (old \o <<CSV_HEADER>> \o rows)) @@ scores,
              raised |-> n < Len(measurements)]

\* mutant of save_measurements: the file is opened with "w", not "a"
save_measurements_truncate(scorer_id, image_code, measurements) ==
    LET scorer_dir == ScorerDir(scorer_id)
        file_exists == scorer_dir \in DOMAIN scores
        header == IF file_exists THEN <<>> ELSE <<CSV_HEADER>>
        n == GoodPrefix(measurements)
        rows == [i \in 1..n |-> Row(image_code, measurements[i])]
    IN  IF ~MkdirOk(scorer_dir)
        THEN [dirs |-> dirs, scores |-> scores, raised |-> TRUE]
        ELSE [dirs |-> dirs \cup {scorer_dir},
              scores |-> (scorer_dir :> (header \o rows)) @@ scores,
              raised |-> n < Len(measurements)]

\* mutant of save_measurements: nothing is written for a code already logged
save_measurements_once(scorer_id, image_code, measurements) ==
    LET scorer_dir == ScorerDir(scorer_id)
        file_exists == scorer_dir \in DOMAIN scores
        old == IF file_exists THEN scores[scorer_dir] ELSE <<>>
        header == IF file_exists THEN <<>> ELSE <<CSV_HEADER>>
        n == IF \E i \in 2..Len(old) : ImageCodeCell(old[i]) = image_code THEN 0
             ELSE GoodPrefix(measurements)
        rows == [i \in 1..n |-> Row(image_code, measurements[i])]
    IN  IF ~MkdirOk(scorer_dir)
        THEN [dirs |-> dirs, scores |-> scores, raised |-> TRUE]
        ELSE [dirs |-> dirs \cup {scorer_dir},
              scores |-> (scorer_dir :> (old \o header \o rows)) @@ scores,
              raised |-> n < Len(measurements)]

\* storage after save_measurements, and whether it raised
save_measurements(scorer_id, image_code, measurements) ==
    LET scorer_dir == ScorerDir(scorer_id)
        file_exists == scorer_dir \in DOMAIN scores
        old == IF file_exists THEN scores[scorer_dir] ELSE <<>>
        header == IF file_exists THEN <<>> ELSE <<CSV_HEADER>>
        n == GoodPrefix(measurements)
        rows == [i \in 1..n |-> Row(image_code, measurements[i])]
    IN  IF ~MkdirOk(scorer_dir)
        THEN [dirs |-> dirs, scores |-> scores, raised |-> TRUE]
        ELSE [dirs |-> dirs \cup {scorer_dir},
              scores |-> (scorer_dir :> (old \o header \o rows)) @@ scores,
              raised |-> n < Len(measurements)]

RECURSIVE TotalLines(_)
\* the lines of all the files of f together
TotalLines(f) ==
    IF DOMAIN f = {} THEN 0
    ELSE LET d == CHOOSE x \in DOMAIN f : TRUE
         IN  Len(f[d]) + TotalLines([x \in DOMAIN f \ {d} |-> f[x]])

Init ==
    /\ manifest \in ManifestInputs
    /\ dirs = {}
    /\ scores = <<>>
    /\ session = [c \in Clients |-> <<>>]
    /\ last = Resp("none", CHOOSE c \in Clients : TRUE, <<>>, "none")
    /\ proc = <<>>

\* a client that presents no session cookie (a new browser, an expired cookie)
new_session(c) ==
    /\ session[c] # <<>>
    /\ session' = [session EXCEPT ![c] = <<>>]
    /\ last' = Resp("new_session", c, <<>>, "none")
    /\ UNCHANGED <<proc, manifest, dirs, scores>>

\* POST /start
start(c, raw) ==
    LET scorer_id == Strip(raw)
    IN  /\ IF scorer_id = <<>>
           THEN /\ last' = [Resp("start", c, session[c], "redirect_index") EXCEPT !.raw = raw]
                /\ UNCHANGED session
           ELSE /\ session' = [session EXCEPT ![c] = scorer_id]
                /\ last' = [Resp("start", c, scorer_id, "redirect_score") EXCEPT !.raw = raw]
        /\ UNCHANGED <<proc, manifest, dirs, scores>>

\* the response of GET /score to a client whose session holds scorer_id
ScoreResponse(c, scorer_id) ==
    LET all_codes == get_image_list
        scored == get_scorer_progress(scorer_id)
        remaining == SelectSeq(all_codes, LAMBDA x : x \notin scored)
        code == remaining[1]
        entry == IF code \in DOMAIN load_manifest THEN load_manifest[code] ELSE <<>>
        system == IF "system" \in DOMAIN entry THEN entry.system ELSE ""
        ref_type == IF system \in AR_SYSTEMS THEN "ar" ELSE "screen"
    IN  IF scorer_id = <<>> THEN Resp("score", c, <<>>, "redirect_index")
        ELSE IF remaining = <<>>
        THEN [Resp("score", c, scorer_id, "done") EXCEPT !.total = Len(all_codes)]
        ELSE [Resp("score", c, scorer_id, "assign") EXCEPT
                  !.image_code = code, !.ref_type = ref_type,
                  !.scored = Cardinality(scored), !.total = Len(all_codes)]

\* GET /score
score_next(c) ==
    /\ last' = ScoreResponse(c, session[c])
    /\ UNCHANGED <<proc, manifest, dirs, scores, session>>

\* POST /submit
submit_scores(c, image_code, measurements) ==
    LET scorer_id == session[c]
        saved == save_measurements(scorer_id, image_code, measurements)
        Answer(status) ==
            [Resp("submit", c, scorer_id, status) EXCEPT
                 !.req_image_code = image_code, !.req_measurements = measurements]
    IN  IF scorer_id = <<>>
        THEN \* answered before the request body is read
             /\ last' = Resp("submit", c, <<>>, "error_no_session")
             /\ UNCHANGED <<proc, manifest, dirs, scores, session>>
        ELSE IF image_code = <<>>
        THEN \* answered before the measurements are looked at
             /\ last' = Resp("submit", c, scorer_id, "error_no_code")
             /\ UNCHANGED <<proc, manifest, dirs, scores, session>>
        ELSE /\ TotalLines(saved.scores) <= MaxLines
             /\ dirs' = saved.dirs
             /\ scores' = saved.scores
             /\ last' = Answer(IF saved.raised THEN "crash" ELSE "ok")
             /\ UNCHANGED <<proc, manifest, session>>

\* the response of GET /progress to a client whose session holds scorer_id
ProgressResponse(c, scorer_id) ==
    LET all_codes == get_image_list
        scored == get_scorer_progress(scorer_id)
    IN  IF scorer_id = <<>> THEN Resp("progress", c, <<>>, "redirect_index")
        ELSE [Resp("progress", c, scorer_id, "json") EXCEPT
                  !.total = Len(all_codes), !.scored = Cardinality(scored),
                  !.remaining = Len(all_codes) - Cardinality(scored)]

\* GET /progress
progress(c) ==
    /\ last' = ProgressResponse(c, session[c])
    /\ UNCHANGED <<proc, manifest, dirs, scores, session>>

\* SCORER_DATA_DIR.exists(): the directory is made when the module is loaded
\* and nothing in the program removes it
SCORER_DATA_DIR_exists == TRUE

\* the d.name of the directories of SCORER_DATA_DIR that hold a scores.csv, sorted
scorer_dirs_with_scores ==
    sorted({d[1] : d \in {x \in dirs : Len(x) = 1 /\ x \in DOMAIN scores}})

\* round(num / den) of Python 3: to the nearest integer, a tie to the even one
round(num, den) ==
    LET q == num \div den
        r == num % den
    IN  IF 2 * r < den THEN q
        ELSE IF 2 * r > den THEN q + 1
        ELSE IF q % 2 = 0 THEN q ELSE q + 1

\* mutant of AdminResponse: the percentage is computed without "if total"
AdminResponse_unguarded(c) ==
    LET all_codes == get_image_list
        total == Len(all_codes)
        names == IF SCORER_DATA_DIR_exists THEN scorer_dirs_with_scores ELSE <<>>
        scorers == [i \in 1..Len(names) |->
                       LET scored == get_scorer_progress(names[i])
                       IN  [id |-> names[i], scored |-> Cardinality(scored), total |-> total,
                            pct |-> IF total # 0 THEN round(Cardinality(scored) * 100, total)
                                    ELSE -1]]
    IN  IF total = 0 /\ names # <<>>
        THEN Resp("admin_status", c, <<>>, "crash")
        ELSE [Resp("admin_status", c, <<>>, "json") EXCEPT !.total = total, !.scorers = scorers]

\* the response of GET /admin/status
AdminResponse(c) ==
    LET all_codes == get_image_list
        total == Len(all_codes)
        names == IF SCORER_DATA_DIR_exists THEN scorer_dirs_with_scores ELSE <<>>
        scorers == [i \in 1..Len(names) |->
                       LET scored == get_scorer_progress(names[i])
                       IN  [id |-> names[i], scored |-> Cardinality(scored), total |-> total,
                            pct |-> IF total # 0 THEN round(Cardinality(scored) * 100, total)
                                    ELSE 0]]
    IN  [Resp("admin_status", c, <<>>, "json") EXCEPT !.total = total, !.scorers = scorers]

\* GET /admin/status
admin_status(c) ==
    /\ last' = AdminResponse(c)
    /\ UNCHANGED <<proc, manifest, dirs, scores, session>>

\* the response of GET /admin/download: 404, or the members of the zip file
DownloadResponse(c) ==
    LET names == scorer_dirs_with_scores
        nameset == {names[i] : i \in 1..Len(names)}
        members == [scores |-> [n \in nameset |-> scores[<<n>>]],
                    manifest |-> IF manifest.exists THEN <<manifest.data>> ELSE <<>>]
    IN  IF ~SCORER_DATA_DIR_exists THEN Resp("download", c, <<>>, "no_data_yet")
        ELSE [Resp("download", c, <<>>, "zip") EXCEPT !.archive = members]

\* GET /admin/download
download_all_scores(c) ==
    /\ last' = DownloadResponse(c)
    /\ UNCHANGED <<proc, manifest, dirs, scores, session>>

Next ==
    \/ \E c \in Clients : new_session(c)
    \/ \E c \in Clients, raw \in RawIds : start(c, raw)
    \/ \E c \in Clients : score_next(c)
    \/ \E c \in Clients, image_code \in CodeInputs, ms \in MeasurementInputs :
           submit_scores(c, image_code, ms)
    \/ \E c \in Clients : progress(c)
    \/ \E c \in Clients : admin_status(c)
    \/ \E c \in Clients : download_all_scores(c)

Spec == Init /\ [][Next]_vars

\* ------------------------------------------- the distance specification
\* save_measurements applied to one pair of points drawn from Coords, by a
\* scorer who has identified as "b" and has no log yet
Coords == (0..MaxCoord) \cup (100..(100 + MaxCoord))

PointPairs ==
    { [id |-> 1, p1_x |-> a, p1_y |-> b, p2_x |-> c, p2_y |-> d] :
          a \in Coords, b \in Coords, c \in Coords, d \in Coords }

DistInit ==
    /\ manifest = [exists |-> TRUE, data |-> (A2 :> [system |-> "3D/Screen"])]
    /\ dirs = {}
    /\ scores = <<>>
    /\ session = [c \in Clients |-> <<98>>]
    /\ last = [Resp("start", CHOOSE c \in Clients : TRUE, <<98>>, "redirect_score")
                   EXCEPT !.raw = <<98>>]
    /\ proc = <<>>

\* POST /submit of one pair for A2, the first submission of the scorer
submit_pair(c, m) ==
    /\ scores = <<>>
    /\ submit_scores(c, A2, <<m>>)

DistNext == \E c \in Clients, m \in PointPairs : submit_pair(c, m)

SpecDist == DistInit /\ [][DistNext]_vars

\* --------------------------------------- the concurrent specification
\* Two request threads of the development server run POST /submit for the
\* client's scorer at once. save_measurements holds no lock; its steps are
\* (1) mkdir and scores_path.exists(), (2) open(scores_path, "a"), which
\* creates the file, (3) the end of the with block, where the header and the
\* rows, buffered until then, reach the file in one append.
Threads == {"t1", "t2"}

ConcInit ==
    /\ manifest \in ManifestInputs
    /\ dirs = {}
    /\ scores = <<>>
    /\ session \in [Clients -> ScorerIds]
    /\ last = Resp("start", CHOOSE c \in Clients : TRUE, session[CHOOSE c \in Clients : TRUE],
                   "redirect_score")
    /\ proc = [t \in Threads |->
                  [pc |-> "idle", scorer_id |-> <<>>, image_code |-> <<>>,
                   measurements |-> <<>>, file_exists |-> FALSE]]

\* submit_scores up to file_exists = scores_path.exists()
conc_exists(t, c, image_code, measurements) ==
    LET scorer_id == session[c]
        scorer_dir == ScorerDir(scorer_id)
    IN  /\ proc[t].pc = "idle"
        /\ scorer_id # <<>>
        /\ image_code # <<>>
        /\ MkdirOk(scorer_dir)
        /\ dirs' = dirs \cup {scorer_dir}
        /\ proc' = [proc EXCEPT ![t] =
                        [pc |-> "checked", scorer_id |-> scorer_id, image_code |-> image_code,
                         measurements |-> measurements,
                         file_exists |-> scorer_dir \in DOMAIN scores]]
        /\ UNCHANGED <<manifest, scores, session, last>>

\* open(scores_path, "a")
conc_open(t) ==
    LET scorer_dir == ScorerDir(proc[t].scorer_id)
    IN  /\ proc[t].pc = "checked"
        /\ scores' = IF scorer_dir \in DOMAIN scores THEN scores
                      ELSE (scorer_dir :> <<>>) @@ scores
        /\ proc' = [proc EXCEPT ![t].pc = "opened"]
        /\ UNCHANGED <<manifest, dirs, session, last>>

\* the writes of the with block reach the file when it is closed, also when
\* a pair raised KeyError; then the response
conc_close(t, c) ==
    LET scorer_dir == ScorerDir(proc[t].scorer_id)
        header == IF proc[t].file_exists THEN <<>> ELSE <<CSV_HEADER>>
        n == GoodPrefix(proc[t].measurements)
        rows == [i \in 1..n |-> Row(proc[t].image_code, proc[t].measurements[i])]
    IN  /\ proc[t].pc = "opened"
        /\ scores' = [scores EXCEPT ![scorer_dir] = @ \o header \o rows]
        /\ last' = [Resp("submit", c, proc[t].scorer_id,
                         IF n < Len(proc[t].measurements) THEN "crash" ELSE "ok")
                        EXCEPT !.req_image_code = proc[t].image_code,
                               !.req_measurements = proc[t].measurements]
        /\ proc' = [proc EXCEPT ![t].pc = "done"]
        /\ UNCHANGED <<manifest, dirs, session>>

ConcNext ==
    \/ \E t \in Threads, c \in Clients, image_code \in CodeInputs, ms \in MeasurementInputs :
           conc_exists(t, c, image_code, ms)
    \/ \E t \in Threads : conc_open(t)
    \/ \E t \in Threads, c \in Clients : conc_close(t, c)

SpecConc == ConcInit /\ [][ConcNext]_vars

\* --------------------------------------------- the loop specification
\* Every scorer has a browser of its own, identified by POST /start, and
\* follows the loop of the scoring page: GET /score, mark one pair or more on
\* the image returned, POST /submit for it, GET /score again, until the done
\* page. proc[s].seen is the sequence of codes s has been assigned.
LoopMeasurements == { [i \in 1..n |-> GoodPair(i)] : n \in 1..MaxPairs }

LoopInit ==
    /\ manifest \in ManifestInputs
    /\ dirs = {}
    /\ scores = <<>>
    /\ session = [s \in ScorerIds |-> s]
    /\ last = Resp("start", CHOOSE s \in ScorerIds : TRUE, CHOOSE s \in ScorerIds : TRUE,
                   "redirect_score")
    /\ proc = [s \in ScorerIds |-> [pc |-> "score", seen |-> <<>>]]

\* GET /score of the browser of s
loop_score(s) ==
    /\ proc[s].pc = "score"
    /\ last' = ScoreResponse(s, session[s])
    /\ proc' = [proc EXCEPT ![s] =
                    IF last'.status = "assign"
                    THEN [pc |-> "submit", seen |-> Append(@.seen, last'.image_code)]
                    ELSE [pc |-> "done", seen |-> @.seen]]
    /\ UNCHANGED <<manifest, dirs, scores, session>>

\* POST /submit of the browser of s, for the image it was last given
loop_submit(s, measurements) ==
    LET scorer_id == session[s]
        image_code == proc[s].seen[Len(proc[s].seen)]
        saved == save_measurements(scorer_id, image_code, measurements)
    IN  /\ proc[s].pc = "submit"
        /\ dirs' = saved.dirs
        /\ scores' = saved.scores
        /\ last' = [Resp("submit", s, scorer_id, IF saved.raised THEN "crash" ELSE "ok")
                        EXCEPT !.req_image_code = image_code,
                               !.req_measurements = measurements]
        /\ proc' = [proc EXCEPT ![s].pc = "score"]
        /\ UNCHANGED <<manifest, session>>

LoopNext ==
    \/ \E s \in ScorerIds : loop_score(s)
    \/ \E s \in ScorerIds, ms \in LoopMeasurements : loop_submit(s, ms)

SpecLoop == LoopInit /\ [][LoopNext]_vars

\* ----------------------------------------------------------- vocabulary
\* the catalog codes
Catalog == IF manifest.exists THEN DOMAIN manifest.data ELSE {}

\* the scorer's log, <<>> when there is none
LogOf(s) == IF ScorerDir(s) \in DOMAIN scores THEN scores[ScorerDir(s)] ELSE <<>>

\* completed(s): the distinct image_code values of the rows of s's log
Completed(s) == {LogOf(s)[i].image_code : i \in {j \in 1..Len(LogOf(s)) : LogOf(s)[j].kind = "row"}}

Unscored(s) == Catalog \ Completed(s)

\* what GetNextAssignment(s) returns: <<"done">> or <<"assign", code>>
NextAssignment(s) ==
    LET r == ScoreResponse(CHOOSE c \in Clients : TRUE, s)
    IN  IF r.status = "assign" THEN <<"assign", r.image_code>> ELSE <<r.status>>

\* what GetProgress(s) returns
Progress(s) ==
    LET r == ProgressResponse(CHOOSE c \in Clients : TRUE, s)
    IN  <<r.status, r.total, r.scored, r.remaining>>

DataRows(log) == SelectSeq(log, LAMBDA l : l.kind = "row")

IsPrefix(a, b) == Len(a) <= Len(b) /\ SubSeq(b, 1, Len(a)) = a

TypeOK ==
    /\ dirs = DOMAIN scores
    /\ TotalLines(scores) <= MaxLines

Codes == CodeInputs \ {<<>>}

Blank(raw) == \A i \in 1..Len(raw) : raw[i] \in Whitespace

\* ------------------------------------------------------------------ claims

\* C1: GetNextAssignment(s) returns the lexicographically smallest catalog
\* code that is not in completed(s), and Done exactly when every catalog code
\* is in completed(s); with no log it returns the smallest catalog code, with
\* an empty or missing catalog it returns Done.
C1_SmallestUnscored ==
    (last.op = "score" /\ last.scorer_id # <<>>) =>
        LET s == last.scorer_id
            code == last.image_code
        IN  /\ last.status \in {"done", "assign"}
            /\ (last.status = "done") <=> (Catalog \subseteq Completed(s))
            /\ (last.status = "assign") =>
                   /\ code \in Unscored(s)
                   /\ \A d \in Unscored(s) : d = code \/ LexLess(code, d)
            /\ (LogOf(s) = <<>> /\ Catalog # {}) =>
                   /\ last.status = "assign"
                   /\ \A d \in Catalog : d = code \/ LexLess(code, d)
            /\ (Catalog = {}) => last.status = "done"

\* a scorer who completed "A10" of the catalog {"A10", "A2"} is assigned "A2"
C1_Witness ==
    /\ last.op = "score" /\ last.status = "assign" /\ last.image_code = A2
    /\ Catalog = {A10, A2}
    /\ A10 \in Completed(last.scorer_id)

\* the submission (s, X, ms) of at least one pair has just been acknowledged
AckedNow(s, X) ==
    /\ last.op = "submit" /\ last.status = "ok" /\ last.scorer_id = s
    /\ last.req_image_code = X /\ last.req_measurements # <<>>

\* GetNextAssignment(s) has just returned X
ReturnedNow(s, X) ==
    last.op = "score" /\ last.status = "assign" /\ last.scorer_id = s /\ last.image_code = X

\* C2: once a submission by s for image X carrying at least one pair has been
\* acknowledged, no later GetNextAssignment(s) returns X.
C2_NeverReassigned ==
    \A s \in ScorerIds : \A X \in Codes : [](AckedNow(s, X) => []~ReturnedNow(s, X))

\* an assignment is returned to a scorer whose log already holds two rows
C2_Witness ==
    /\ last.op = "score" /\ last.status = "assign"
    /\ Len(DataRows(LogOf(last.scorer_id))) >= 2
    /\ \E i \in 1..Len(LogOf(last.scorer_id)) :
           LogOf(last.scorer_id)[i].kind = "row" /\ LogOf(last.scorer_id)[i].image_code # A2

\* C3 (as claimed): a submission with a missing imageCode or with an empty
\* measurements list is rejected with an error and leaves storage as it was.
C3_MalformedRejected ==
    [][ (last'.op = "submit" /\ (last'.req_image_code = <<>> \/ last'.req_measurements = <<>>))
            => /\ last'.status \in {"error_no_session", "error_no_code"}
               /\ dirs' = dirs /\ scores' = scores ]_vars

\* C4: after any number of sequential appends a log holds the header exactly
\* once, as its first line.
C4_HeaderOnceFirst ==
    \A d \in DOMAIN scores :
        /\ Len(scores[d]) >= 1
        /\ scores[d][1] = CSV_HEADER
        /\ Cardinality({i \in 1..Len(scores[d]) : scores[d][i] = CSV_HEADER}) = 1

\* a log of three lines whose last append carried a single pair
C4_Witness ==
    /\ last.op = "submit" /\ last.status = "ok" /\ Len(last.req_measurements) = 1
    /\ Len(LogOf(last.scorer_id)) = 3

\* C5 (as claimed): every image_code in a log is a catalog key.
C5_LoggedCodesInCatalog == \A s \in ScorerIds : Completed(s) \subseteq Catalog

\* C6 (as claimed): GetProgress(s) reports scored = k and remaining = n - k
\* for k the number of distinct catalog images s scored, 0 <= remaining <=
\* total, and remaining = 0 exactly when GetNextAssignment(s) returns Done.
C6_ProgressCounts ==
    (last.op = "progress" /\ last.status = "json") =>
        LET s == last.scorer_id
            k == Cardinality(Completed(s) \cap Catalog)
        IN  /\ last.total = Cardinality(Catalog)
            /\ last.scored = k
            /\ last.remaining = Cardinality(Catalog) - k
            /\ 0 <= last.remaining /\ last.remaining <= last.total
            /\ (last.remaining = 0) <=> (NextAssignment(s) = <<"done">>)

\* C7: a log is append-only: an acknowledged submission of m pairs adds
\* exactly m rows, in input order, all with the submitted image_code; no step
\* changes or removes a line already written; completed(s) never shrinks.
C7_AppendOnly ==
    [][ /\ \A d \in DOMAIN scores : d \in DOMAIN scores' /\ IsPrefix(scores[d], scores'[d])
        /\ \A s \in ScorerIds : Completed(s) \subseteq Completed(s)'
        /\ \A s \in ScorerIds :
               (last'.op = "submit" /\ last'.status = "ok" /\ last'.scorer_id = s) =>
                   LET ms == last'.req_measurements
                       before == DataRows(LogOf(s))
                       after == DataRows(LogOf(s)')
                   IN  /\ Len(after) = Len(before) + Len(ms)
                       /\ IsPrefix(before, after)
                       /\ \A i \in 1..Len(ms) :
                              after[Len(before) + i] = Row(last'.req_image_code, ms[i]) ]_vars

\* a one-pair submission acknowledged on a log that held a row of another image
C7_Witness ==
    /\ last.op = "submit" /\ last.status = "ok" /\ Len(last.req_measurements) = 1
    /\ Len(LogOf(last.scorer_id)) = 3
    /\ LogOf(last.scorer_id)[2].image_code # LogOf(last.scorer_id)[3].image_code

\* C8 (as claimed): GetNextAssignment(s) gives the same result as long as s
\* itself submits nothing, whatever other scorers submit.
C8_StableAssignment ==
    [][ \A s \in ScorerIds :
            ~(last'.op = "submit" /\ last'.scorer_id = s)
                => NextAssignment(s)' = NextAssignment(s) ]_vars

\* C9 (as claimed): a submission by A leaves the log, the completed set, the
\* progress and the next assignment of every other identity B unchanged.
C9_ScorersIndependent ==
    [][ \A A \in ScorerIds : \A B \in ScorerIds \ {A} :
            (last'.op = "submit" /\ last'.scorer_id = A)
                => /\ LogOf(B)' = LogOf(B)
                   /\ Completed(B)' = Completed(B)
                   /\ Progress(B)' = Progress(B)
                   /\ NextAssignment(B)' = NextAssignment(B) ]_vars

\* C10: without a scorer identity GetNextAssignment, SubmitMeasurements and
\* GetProgress answer with a redirect or an error and write nothing; a start
\* with an empty or whitespace-only identifier establishes no identity.
C10_MissingIdentity ==
    [][ /\ (last'.op \in {"score", "submit", "progress"} /\ session[last'.client] = <<>>)
            => /\ last'.status \in {"redirect_index", "error_no_session"}
               /\ dirs' = dirs /\ scores' = scores /\ session' = session
        /\ (last'.op = "start" /\ Blank(last'.raw))
            => /\ last'.status = "redirect_index"
               /\ session' = session
        /\ \A c \in Clients : session'[c] = <<>> \/ ~Blank(session'[c]) ]_vars

\* a submission without identity is refused while another scorer's log exists
C10_Witness ==
    /\ last.op = "submit" /\ last.status = "error_no_session"
    /\ scores # <<>>
\* the scorer namespaces in storage: the directories of SCORER_DATA_DIR
Namespaces == {d[1] : d \in {x \in dirs : Len(x) = 1}}

\* C11: GetAdminStatus lists every scorer namespace found in storage, each
\* with scored = |completed(scorer)|, total = the catalog size and percent =
\* scored / total * 100 rounded to the nearest integer; with an empty or
\* missing catalog (total = 0) it answers percent = 0 for every scorer.
C11_AdminStatus ==
    (last.op = "admin_status") =>
        LET e == last.scorers
        IN  /\ last.status = "json"
            /\ last.total = Cardinality(Catalog)
            /\ {e[i].id : i \in 1..Len(e)} = Namespaces
            /\ \A i, j \in 1..Len(e) : e[i].id = e[j].id => i = j
            /\ \A i \in 1..Len(e) :
                   /\ e[i].scored = Cardinality(Completed(e[i].id))
                   /\ e[i].total = Cardinality(Catalog)
                   /\ (e[i].total = 0) => (e[i].pct = 0)
                   /\ (e[i].total > 0) =>
                          /\ 2 * (e[i].pct * e[i].total - 100 * e[i].scored) <= e[i].total
                          /\ 2 * (100 * e[i].scored - e[i].pct * e[i].total) <= e[i].total

\* a scorer with a log is listed while the catalog is empty or missing
C11_Witness ==
    /\ last.op = "admin_status"
    /\ last.total = 0
    /\ \E i \in 1..Len(last.scorers) : last.scorers[i].scored > 0

\* C12: ExportAll before any scorer has written anything answers the
\* "no data yet" error and no archive; once a scorer has a log, the archive
\* holds every scorer's whole log and the manifest.
C12_ExportAll ==
    (last.op = "download") =>
        /\ (scores = <<>>) => (last.status = "no_data_yet")
        /\ (scores # <<>>) =>
               /\ last.status = "zip"
               /\ \A s \in ScorerIds :
                      LogOf(s) # <<>> =>
                          \E n \in DOMAIN last.archive.scores :
                              last.archive.scores[n] = LogOf(s)
               /\ manifest.exists => last.archive.manifest = <<manifest.data>>

\* the half of C12 about a storage that holds a log
C12_ArchiveComplete ==
    (last.op = "download" /\ scores # <<>>) =>
        /\ last.status = "zip"
        /\ \A s \in ScorerIds :
               LogOf(s) # <<>> =>
                   \E n \in DOMAIN last.archive.scores : last.archive.scores[n] = LogOf(s)
        /\ manifest.exists => last.archive.manifest = <<manifest.data>>

\* a pair of a submission lacks one of the keys save_measurements reads
Malformed(ms) == \E i \in 1..Len(ms) : ~(Keys \subseteq DOMAIN ms[i])

\* C14: a submission is all-or-nothing: when processing fails on any pair
\* (a pair that lacks a coordinate), the log is left exactly as it was, with
\* no earlier pair and no header written, and the failure is answered as an
\* explicit error, not an unhandled crash.
C14_AllOrNothing ==
    [][(last'.op = "submit" /\ Malformed(last'.req_measurements)) =>
           /\ scores' = scores
           /\ dirs' = dirs
           /\ last'.status \in {"error_no_session", "error_no_code", "error_malformed"}]_vars

\* C15: when two submissions by the same scorer interleave, also when both
\* find the log absent, the log holds the header exactly once and every row
\* of both submissions, and completed(s), as the program reads it, holds only
\* codes that were submitted.
C15_InterleavedSubmissions ==
    (\A t \in DOMAIN proc : proc[t].pc = "done") =>
        \A t \in DOMAIN proc, u \in DOMAIN proc :
            (t # u /\ ScorerDir(proc[t].scorer_id) = ScorerDir(proc[u].scorer_id)) =>
                LET log == LogOf(proc[t].scorer_id)
                    Count(l) == Cardinality({i \in 1..Len(log) : log[i] = l})
                    RowsOf(x) == {Row(proc[x].image_code, proc[x].measurements[i]) :
                                      i \in 1..GoodPrefix(proc[x].measurements)}
                IN  /\ Count(CSV_HEADER) = 1
                    /\ \A r \in RowsOf(t) \cup RowsOf(u) : Count(r) >= 1
                    /\ Len(DataRows(log))
                           = GoodPrefix(proc[t].measurements) + GoodPrefix(proc[u].measurements)
                    /\ ~get_scorer_progress_raises(proc[t].scorer_id)
                    /\ get_scorer_progress(proc[t].scorer_id)
                           \subseteq {proc[t].image_code, proc[u].image_code}

\* the rows of both interleaved submissions are in the log, whatever became
\* of the header
C15_RowsKept ==
    (\A t \in DOMAIN proc : proc[t].pc = "done") =>
        \A t \in DOMAIN proc, u \in DOMAIN proc :
            (t # u /\ ScorerDir(proc[t].scorer_id) = ScorerDir(proc[u].scorer_id)) =>
                /\ \A i \in 1..GoodPrefix(proc[t].measurements) :
                       \E j \in 1..Len(LogOf(proc[t].scorer_id)) :
                           LogOf(proc[t].scorer_id)[j]
                               = Row(proc[t].image_code, proc[t].measurements[i])
                /\ Len(DataRows(LogOf(proc[t].scorer_id)))
                       = GoodPrefix(proc[t].measurements) + GoodPrefix(proc[u].measurements)

\* seen is in strictly increasing lexicographic order
Increasing(seen) == \A i \in 1..Len(seen), j \in 1..Len(seen) : i < j => LexLess(seen[i], seen[j])

\* C16: with a fixed catalog of n images, a scorer who repeatedly takes
\* GetNextAssignment and submits one pair or more for the image returned is
\* assigned catalog codes in strictly increasing lexicographic order, each
\* exactly once, and receives Done after exactly n such submissions; every
\* scorer who follows the loop sees the same sequence.
C16_LoopSequence ==
    /\ \A s \in DOMAIN proc :
           /\ Increasing(proc[s].seen)
           /\ \A i \in 1..Len(proc[s].seen) : proc[s].seen[i] \in Catalog
           /\ (proc[s].pc = "done") =>
                  /\ Len(proc[s].seen) = Cardinality(Catalog)
                  /\ {proc[s].seen[i] : i \in 1..Len(proc[s].seen)} = Catalog
    /\ \A s \in DOMAIN proc, u \in DOMAIN proc :
           IsPrefix(proc[s].seen, proc[u].seen) \/ IsPrefix(proc[u].seen, proc[s].seen)

\* C16 for the scorers whose log directory no other scorer's id resolves to
C16_LoopSequenceUnshared ==
    LET Unshared == {s \in DOMAIN proc :
                        \A u \in DOMAIN proc : ScorerDir(u) = ScorerDir(s) => u = s}
    IN  /\ \A s \in Unshared :
               /\ Increasing(proc[s].seen)
               /\ \A i \in 1..Len(proc[s].seen) : proc[s].seen[i] \in Catalog
               /\ (proc[s].pc = "done") =>
                      /\ Len(proc[s].seen) = Cardinality(Catalog)
                      /\ {proc[s].seen[i] : i \in 1..Len(proc[s].seen)} = Catalog

\* C17: resubmitting (well-formed) measurements for an image already in
\* completed(s) is accepted and appends one further row per pair; it leaves
\* completed(s), the GetProgress counts and GetNextAssignment(s) unchanged.
C17_Resubmission ==
    [][\A s \in ScorerIds :
           (/\ last'.op = "submit"
            /\ last'.scorer_id = s
            /\ last'.req_image_code \in Completed(s)
            /\ ~Malformed(last'.req_measurements)) =>
               LET ms == last'.req_measurements
               IN  /\ last'.status = "ok"
                   /\ Len(LogOf(s)') = Len(LogOf(s)) + Len(ms)
                   /\ IsPrefix(LogOf(s), LogOf(s)')
                   /\ \A i \in 1..Len(ms) :
                          LET r == LogOf(s)'[Len(LogOf(s)) + i]
                          IN  /\ r.kind = "row"
                              /\ r.image_code = last'.req_image_code
                              /\ r.measurement_id = ms[i].id
                              /\ <<r.point1_x, r.point1_y, r.point2_x, r.point2_y>>
                                     = <<ms[i].p1_x, ms[i].p1_y, ms[i].p2_x, ms[i].p2_y>>
                   /\ Completed(s)' = Completed(s)
                   /\ Progress(s)' = Progress(s)
                   /\ NextAssignment(s)' = NextAssignment(s)]_vars

\* a resubmission has been acknowledged: the log holds more rows of the
\* submitted code than the request had pairs
C17_Witness ==
    /\ last.op = "submit"
    /\ last.status = "ok"
    /\ last.req_measurements # <<>>
    /\ Len(SelectSeq(LogOf(last.scorer_id),
                     LAMBDA l : l.kind = "row" /\ l.image_code = last.req_image_code))
           > Len(last.req_measurements)

\* C18: the referenceKind of an assignment is AR exactly when the system tag
\* of the assigned image is "2D/AR" or "AR-VIU", and screen otherwise, also
\* for an image whose catalog entry has no system field.
C18_ReferenceKind ==
    (last.op = "score" /\ last.status = "assign") =>
        LET code == last.image_code
            tagged == code \in Catalog /\ "system" \in DOMAIN manifest.data[code]
        IN  /\ last.ref_type \in {"ar", "screen"}
            /\ (last.ref_type = "ar") <=>
                   (tagged /\ manifest.data[code].system \in {"2D/AR", "AR-VIU"})

\* an image whose catalog entry has no system field has been assigned
C18_Witness ==
    /\ last.op = "score"
    /\ last.status = "assign"
    /\ last.image_code \in Catalog
    /\ "system" \notin DOMAIN manifest.data[last.image_code]
    /\ last.ref_type = "screen"

\* ---- naturals beyond 2^31, as sequences of base-10^4 digits, least first
Base == 100 * 100

Big(x) == <<x % Base, (x \div Base) % Base, x \div (Base * Base)>>

RECURSIVE BigCarry(_, _)
BigCarry(a, carry) ==
    IF a = <<>>
    THEN IF carry = 0 THEN <<>> ELSE <<carry % Base>> \o BigCarry(<<>>, carry \div Base)
    ELSE <<(Head(a) + carry) % Base>> \o BigCarry(Tail(a), (Head(a) + carry) \div Base)

RECURSIVE BigTerms(_, _, _, _)
\* the sum of a[i] * b[k + 1 - i] over i
BigTerms(a, b, k, i) ==
    IF i > Len(a) THEN 0
    ELSE (IF (k + 1 - i) \in 1..Len(b) THEN a[i] * b[k + 1 - i] ELSE 0)
             + BigTerms(a, b, k, i + 1)

BigMul(a, b) == BigCarry([k \in 1..(Len(a) + Len(b) - 1) |-> BigTerms(a, b, k, 1)], 0)

RECURSIVE BigTrim(_)
BigTrim(a) ==
    IF a # <<>> /\ a[Len(a)] = 0 THEN BigTrim(SubSeq(a, 1, Len(a) - 1)) ELSE a

RECURSIVE BigLeqSameLen(_, _)
BigLeqSameLen(a, b) ==
    IF a = <<>> THEN TRUE
    ELSE IF a[Len(a)] # b[Len(b)] THEN a[Len(a)] < b[Len(b)]
    ELSE BigLeqSameLen(SubSeq(a, 1, Len(a) - 1), SubSeq(b, 1, Len(b) - 1))

BigLeq(a, b) ==
    LET x == BigTrim(a)
        y == BigTrim(b)
    IN  IF Len(x) # Len(y) THEN Len(x) < Len(y) ELSE BigLeqSameLen(x, y)

KNumSquared == BigMul(Big(KNum), Big(KNum))
KDenSquared == BigMul(Big(KDen), Big(KDen))

\* every data row of every log
AllRows == UNION { {scores[d][i] : i \in {j \in 1..Len(scores[d]) : scores[d][j].kind = "row"}} :
                       d \in DOMAIN scores }

\* the squared distance of the two points recorded in a row
RowSq(r) ==
    (r.point1_x - r.point2_x) * (r.point1_x - r.point2_x)
        + (r.point1_y - r.point2_y) * (r.point1_y - r.point2_y)

\* the row of the same pair with its two points exchanged
Swapped(r) ==
    Row(r.image_code, [id |-> r.measurement_id, p1_x |-> r.point2_x, p1_y |-> r.point2_y,
                       p2_x |-> r.point1_x, p2_y |-> r.point1_y])

\* c hundredths is a nearest hundredth to sqrt(n)
NearestToRoot(c, n) ==
    /\ c >= 0
    /\ c = 0 \/ (2 * c - 1) * (2 * c - 1) <= 40000 * n
    /\ (2 * c + 1) * (2 * c + 1) >= 40000 * n

\* c hundredths is a nearest hundredth to (KNum / KDen) * sqrt(n):
\* ((2c - 1) KDen)^2 <= (200 KNum)^2 n <= ((2c + 1) KDen)^2
NearestToKRoot(c, n) ==
    LET mid == BigMul(KNumSquared, Big(40000 * n))
    IN  /\ c >= 0
        /\ c = 0 \/ BigLeq(BigMul(KDenSquared, Big((2 * c - 1) * (2 * c - 1))), mid)
        /\ BigLeq(mid, BigMul(KDenSquared, Big((2 * c + 1) * (2 * c + 1))))

\* C13, as stated: the recorded distance is symmetric, non-negative, zero
\* when p1 = p2, the recorded distance_mm is exactly the recorded
\* distance_px times the constant K = KNum / KDen, and the pair (100,100),
\* (103,104) is recorded with distance_px = 5.00.
C13_ExactProduct ==
    \A r \in AllRows :
        /\ Swapped(r).distance_px = r.distance_px
        /\ Swapped(r).distance_mm = r.distance_mm
        /\ r.distance_px >= 0 /\ r.distance_mm >= 0
        /\ (RowSq(r) = 0) => (r.distance_px = 0 /\ r.distance_mm = 0)
        /\ BigTrim(BigMul(Big(r.distance_mm), Big(KDen)))
               = BigTrim(BigMul(Big(r.distance_px), Big(KNum)))
        /\ (r.point1_x = 100 /\ r.point1_y = 100 /\ r.point2_x = 103 /\ r.point2_y = 104)
               => r.distance_px = 500

\* C13, amended: the recorded distance is symmetric, non-negative, zero when
\* p1 = p2; the recorded distance_px is the distance rounded to two decimals
\* and the recorded distance_mm is the distance times K rounded to two
\* decimals; the pair (100,100), (103,104) is recorded with distance_px = 5.00.
C13_RecordedDistance ==
    \A r \in AllRows :
        /\ Swapped(r).distance_px = r.distance_px
        /\ Swapped(r).distance_mm = r.distance_mm
        /\ r.distance_px >= 0 /\ r.distance_mm >= 0
        /\ (RowSq(r) = 0) => (r.distance_px = 0 /\ r.distance_mm = 0)
        /\ NearestToRoot(r.distance_px, RowSq(r))
        /\ NearestToKRoot(r.distance_mm, RowSq(r))
        /\ (r.point1_x = 100 /\ r.point1_y = 100 /\ r.point2_x = 103 /\ r.point2_y = 104)
               => r.distance_px = 500

\* the pair (100,100), (103,104) has been recorded: 5.00 px, 0.66 mm
C13_Witness ==
    \E r \in AllRows :
        /\ r.point1_x = 100 /\ r.point1_y = 100 /\ r.point2_x = 103 /\ r.point2_y = 104
        /\ r.distance_px = 500
        /\ r.distance_mm = 66

====
